---- MODULE Spec2Model ----
(***************************************************************************)
(* The chart builders of pages/1_Graficos.py: plot_line_chart,            *)
(* plot_dual_line_chart and plot_bar_chart, over a polars DataFrame.       *)
(*                                                                         *)
(* A DataFrame is a schema (column name -> dtype) and a sequence of rows.  *)
(* A numeric cell is the rational num/den (den = 1 for an Int64 column);   *)
(* a Date cell is a record year/month/day.  A Figure is the record of the  *)
(* traces and of the x axis that plotly receives.  An exception raised by  *)
(* polars or plotly is a record of its class and of the column it names.   *)
(***************************************************************************)
EXTENDS Integers, Sequences, FiniteSets, TLC

VARIABLES
    df,        \* the caller's DataFrame, handed to every builder call
    last,      \* the builder call made last: its name and its arguments
    chart,     \* the Figure that call returned, or NoChart
    err,       \* the exception that call raised, or NoError
    first      \* history: the first call of the run, with its outcome

vars == <<df, last, chart, err, first>>

\* Largest number of rows of a DataFrame handed to the builders.
MaxRows == 3

(***************************************************************************)
(* Module constants                                                        *)
(***************************************************************************)
CHART_COLORS ==
    [orange |-> "#FF6200", blue |-> "#0131FF", gray |-> "#C7D2FF",
     success |-> "#00AA44", warning |-> "#FFB800", danger |-> "#FF4B4B"]

FORMAT_TEMPLATES ==
    [number |-> "{text:,.0f}", percentage |-> "{text:.1%}",
     currency |-> "${text:,.0f}M", decimal |-> "{text:,.2f}"]

CHART_DEFAULTS ==
    [n_points |-> 12, tick_angle |-> 45, date_format |-> "%B %y",
     text_position |-> "top center", line_shape |-> "linear",
     mode |-> "lines+markers+text"]

NoChart == [kind |-> "none"]
NoError == [kind |-> "none"]
NoCall == [op |-> "none"]

(***************************************************************************)
(* Cells: dates and numbers                                                *)
(***************************************************************************)
Date(y, m, d) == [year |-> y, month |-> m, day |-> d]

Int64(n) == [num |-> n, den |-> 1]

RECURSIVE Gcd(_, _)
Gcd(a, b) == IF b = 0 THEN a ELSE Gcd(b, a % b)

Abs(n) == IF n < 0 THEN -n ELSE n

\* The quotient num/den in lowest terms, den > 0.
Ratio(num, den) ==
    LET g == Gcd(Abs(num), Abs(den))
        s == IF den < 0 THEN -1 ELSE 1
    IN  [num |-> s * (num \div g), den |-> s * (den \div g)]

\* pl.col(c) / scale_factor on one cell: true division.
TrueDiv(cell, k) == Ratio(cell.num, cell.den * k)

IsDate(c) == "year" \in DOMAIN c

\* c1 < c2 for two cells of one column.
CellLess(c1, c2) ==
    IF IsDate(c1)
    THEN \/ c1.year < c2.year
         \/ c1.year = c2.year /\ c1.month < c2.month
         \/ c1.year = c2.year /\ c1.month = c2.month /\ c1.day < c2.day
    ELSE c1.num * c2.den < c2.num * c1.den

MonthName ==
    <<"January", "February", "March", "April", "May", "June", "July",
      "August", "September", "October", "November", "December">>

Pad2(n) == IF n < 10 THEN "0" \o ToString(n) ELSE ToString(n)

\* d.strftime(fmt), for the format patterns the builders are called with.
Strftime(d, fmt) ==
    CASE fmt = "%B %y" -> MonthName[d.month] \o " " \o Pad2(d.year % 100)
      [] fmt = "%B %Y" -> MonthName[d.month] \o " " \o ToString(d.year)
      [] fmt = "%Y-%m-%d" ->
            ToString(d.year) \o "-" \o Pad2(d.month) \o "-" \o Pad2(d.day)

(***************************************************************************)
(* polars DataFrame operations                                             *)
(***************************************************************************)
Columns(frame) == DOMAIN frame.schema

Height(frame) == Len(frame.rows)

\* frame[col]: the column as a sequence of cells.
GetColumn(frame, col) == [i \in 1..Height(frame) |-> frame.rows[i][col]]

\* Where row r goes among rows already in order: behind the rows whose key
\* is not greater ("keep": equal keys stay in input order) or behind the
\* rows whose key is smaller ("reverse").
InsertAt(sorted, r, by, tie) ==
    Cardinality({i \in 1..Len(sorted) :
        \/ CellLess(sorted[i][by], r[by])
        \/ tie = "keep" /\ ~CellLess(r[by], sorted[i][by])})

RECURSIVE SortRows(_, _, _)
SortRows(rows, by, tie) ==
    IF rows = <<>> THEN <<>>
    ELSE LET n == Len(rows)
             sorted == SortRows(SubSeq(rows, 1, n - 1), by, tie)
             k == InsertAt(sorted, rows[n], by, tie)
         IN  SubSeq(sorted, 1, k) \o <<rows[n]>> \o SubSeq(sorted, k + 1, n - 1)

\* The orders in which a sort may leave rows with equal keys.
TieOrders == {"keep", "reverse"}

\* Variant of sort: the frame is left in the caller's order.
sort_unsorted(frame, by, tie) == frame

\* df.sort(by): a new frame, ascending.  maintain_order is left False, so
\* polars promises no order for rows with equal keys: tie is the order
\* this sort leaves them in.
sort(frame, by, tie) == [frame EXCEPT !.rows = SortRows(frame.rows, by, tie)]

\* Variant of tail: one row too many.
tail_one_more(frame, n) ==
    LET h == Height(frame)
        k == IF n < 0 THEN (IF h + n < 0 THEN 0 ELSE h + n)
             ELSE (IF n + 1 < h THEN n + 1 ELSE h)
    IN  [frame EXCEPT !.rows = SubSeq(frame.rows, h - k + 1, h)]

\* Variant of tail: a negative n counts as |n|.
tail_abs(frame, n) ==
    LET h == Height(frame)
        k == IF Abs(n) < h THEN Abs(n) ELSE h
    IN  [frame EXCEPT !.rows = SubSeq(frame.rows, h - k + 1, h)]

\* df.tail(n): a new frame of the last n rows; a negative n is all rows but
\* the first |n|.
tail(frame, n) ==
    LET h == Height(frame)
        k == IF n < 0 THEN (IF h + n < 0 THEN 0 ELSE h + n)
             ELSE (IF n < h THEN n ELSE h)
    IN  [frame EXCEPT !.rows = SubSeq(frame.rows, h - k + 1, h)]

\* Variant of with_columns: floor division (//) in place of true division.
with_columns_floor(frame, col, k) ==
    [schema |-> frame.schema,
     rows |-> [i \in 1..Height(frame) |->
                 [frame.rows[i] EXCEPT ![col] =
                     Int64((frame.rows[i][col].num \div frame.rows[i][col].den)
                           \div k)]]]

\* df.with_columns(pl.col(col) / k): a new frame whose column col holds the
\* quotients, as Float64.
with_columns(frame, col, k) ==
    [schema |-> [frame.schema EXCEPT ![col] = "Float64"],
     rows |-> [i \in 1..Height(frame) |->
                 [frame.rows[i] EXCEPT ![col] = TrueDiv(frame.rows[i][col], k)]]]

(***************************************************************************)
(* Outcomes of a call: the Figure returned or the exception raised, and    *)
(* the caller's frame as the call leaves it                                *)
(***************************************************************************)
Return(fig, frame) == [chart |-> fig, err |-> NoError, df |-> frame]

\* The exception propagates out of the builder: no Figure is returned.
\* kind is the exception's class: polars raises ColumnNotFoundError for a
\* column it is asked for and does not have; plotly express raises a plain
\* ValueError whose message names the argument and the column.
Raise(exception, col, by, frame) ==
    [chart |-> NoChart,
     err |-> [kind |-> exception, column |-> col, raised_by |-> by],
     df |-> frame]

\* The cells of a column without those seen earlier in it.
RECURSIVE Distinct(_)
Distinct(cells) ==
    IF cells = <<>> THEN <<>>
    ELSE LET n == Len(cells)
             init == Distinct(SubSeq(cells, 1, n - 1))
         IN  IF \E i \in 1..(n - 1) : cells[i] = cells[n]
             THEN init ELSE Append(init, cells[n])

\* Variant of XAxis: one tick per distinct value of the x column.
XAxis_distinct(plot_data, x_col, date_format, tick_angle) ==
    LET d == Distinct(GetColumn(plot_data, x_col)) IN
    [tickvals |-> d,
     ticktext |-> [i \in 1..Len(d) |-> Strftime(d[i], date_format)],
     tickangle |-> tick_angle]

XAxis(plot_data, x_col, date_format, tick_angle) ==
    [tickvals |-> GetColumn(plot_data, x_col),
     ticktext |-> [i \in 1..Height(plot_data) |->
                     Strftime(plot_data.rows[i][x_col], date_format)],
     tickangle |-> tick_angle]

\* px.line / px.bar: one trace over the frame's rows, in the frame's order.
PxTrace(plot_data, x, y) ==
    [x |-> GetColumn(plot_data, x), y |-> GetColumn(plot_data, y)]

(***************************************************************************)
(* plot_line_chart                                                         *)
(***************************************************************************)
\* px.line over the window, update_traces, update_layout, return fig.
line_figure(plot_data, cfg, frame) ==
    IF cfg.y_values \notin Columns(plot_data)
    THEN Raise("ValueError", cfg.y_values, "px.line", frame)
    ELSE
    LET t == PxTrace(plot_data, cfg.date_col, cfg.y_values) IN
    Return(
      [kind |-> "line",
       title |-> cfg.title,
       traces |-> <<[x |-> t.x, y |-> t.y, text |-> t.y,
                     textposition |-> CHART_DEFAULTS.text_position,
                     texttemplate |->
                        "<b style=\"color:white;\">%" \o cfg.y_format \o "</b>",
                     color |-> cfg.color]>>,
       xaxis |-> XAxis(plot_data, cfg.date_col, cfg.date_format, cfg.tick_angle),
       showlegend |-> FALSE,
       margin |-> [t |-> 50, b |-> 50, l |-> 50, r |-> 50]],
      frame)

plot_line_chart(frame, cfg, tie) ==
    IF cfg.date_col \notin Columns(frame)
    THEN Raise("ColumnNotFoundError", cfg.date_col, "DataFrame.sort",
               frame)
    ELSE line_figure(tail(sort(frame, cfg.date_col, tie), cfg.n_points),
                     cfg, frame)

(***************************************************************************)
(* plot_dual_line_chart                                                    *)
(***************************************************************************)
\* Variant of Scatter: the number template whatever the format argument.
Scatter_number_format(plot_data, x_col, y_col, name, color, format) ==
    [x |-> GetColumn(plot_data, x_col),
     y |-> GetColumn(plot_data, y_col),
     name |-> name,
     color |-> color,
     line_shape |-> CHART_DEFAULTS.line_shape,
     mode |-> CHART_DEFAULTS.mode,
     text |-> GetColumn(plot_data, y_col),
     textposition |-> CHART_DEFAULTS.text_position,
     texttemplate |-> "%" \o FORMAT_TEMPLATES.number]

Scatter(plot_data, x_col, y_col, name, color, format) ==
    [x |-> GetColumn(plot_data, x_col),
     y |-> GetColumn(plot_data, y_col),
     name |-> name,
     color |-> color,
     line_shape |-> CHART_DEFAULTS.line_shape,
     mode |-> CHART_DEFAULTS.mode,
     text |-> GetColumn(plot_data, y_col),
     textposition |-> CHART_DEFAULTS.text_position,
     texttemplate |-> "%" \o format]

plot_dual_line_chart(frame, cfg, tie) ==
    IF cfg.date_col \notin Columns(frame)
    THEN Raise("ColumnNotFoundError", cfg.date_col, "DataFrame.sort",
               frame)
    ELSE
    LET plot_data == tail(sort(frame, cfg.date_col, tie), cfg.n_points) IN
    IF cfg.y1_col \notin Columns(plot_data)
    THEN Raise("ColumnNotFoundError", cfg.y1_col,
               "DataFrame.__getitem__", frame)
    ELSE IF cfg.y2_col \notin Columns(plot_data)
    THEN Raise("ColumnNotFoundError", cfg.y2_col,
               "DataFrame.__getitem__", frame)
    ELSE
    Return(
      [kind |-> "dual",
       title |-> cfg.title,
       traces |-> <<Scatter(plot_data, cfg.date_col, cfg.y1_col, cfg.y1_name,
                            cfg.y1_color, cfg.y1_format),
                    Scatter(plot_data, cfg.date_col, cfg.y2_col, cfg.y2_name,
                            cfg.y2_color, cfg.y2_format)>>,
       xaxis |-> XAxis(plot_data, cfg.date_col, cfg.date_format, cfg.tick_angle),
       margin |-> [t |-> 50, b |-> 50, l |-> 50, r |-> 50],
       legend |-> [orientation |-> "h", yanchor |-> "bottom",
                   y |-> Ratio(102, 100), xanchor |-> "right",
                   x |-> Int64(1)]],
      frame)

(***************************************************************************)
(* plot_bar_chart                                                          *)
(***************************************************************************)
\* px.bar over the window, update_traces, update_layout, return fig.
bar_figure(plot_data, cfg, frame) ==
    IF cfg.x_axis \notin Columns(plot_data)
    THEN Raise("ValueError", cfg.x_axis, "px.bar", frame)
    ELSE IF cfg.y_values \notin Columns(plot_data)
    THEN Raise("ValueError", cfg.y_values, "px.bar", frame)
    ELSE
    LET t == PxTrace(plot_data, cfg.x_axis, cfg.y_values) IN
    Return(
      [kind |-> "bar",
       title |-> cfg.title,
       traces |-> <<[x |-> t.x, y |-> t.y,
                     textposition |-> "outside",
                     texttemplate |->
                        "<b style=\"color:white;\">"
                            \o FORMAT_TEMPLATES.currency \o "</b>",
                     color |-> cfg.color]>>,
       xaxis |-> XAxis(plot_data, cfg.x_axis, "%B %Y", CHART_DEFAULTS.tick_angle),
       showlegend |-> FALSE,
       margin |-> [t |-> 50, b |-> 50, l |-> 50, r |-> 50]],
      frame)

\* Variant of plot_bar_chart: scales the default column Monto_Efectivo
\* whatever value_column names.
plot_bar_chart_default_column(frame, cfg) ==
    bar_figure(tail(with_columns(frame, "Monto_Efectivo", cfg.scale_factor),
                    cfg.n_points),
               cfg, frame)

\* Variant of plot_bar_chart: the scaled column is written into the
\* caller's frame.
plot_bar_chart_in_place(frame, cfg) ==
    IF cfg.value_column \notin Columns(frame)
    THEN Raise("ColumnNotFoundError", cfg.value_column,
               "DataFrame.with_columns", frame)
    ELSE bar_figure(
            tail(with_columns(frame, cfg.value_column, cfg.scale_factor),
                 cfg.n_points),
            cfg,
            with_columns(frame, cfg.value_column, cfg.scale_factor))

\* Variant of plot_bar_chart: sorts by the x column before windowing, as
\* the line builders do.
plot_bar_chart_sorted(frame, cfg) ==
    IF cfg.value_column \notin Columns(frame)
    THEN Raise("ColumnNotFoundError", cfg.value_column,
               "DataFrame.with_columns", frame)
    ELSE IF cfg.x_axis \notin Columns(frame)
    THEN Raise("ColumnNotFoundError", cfg.x_axis, "DataFrame.sort",
               frame)
    ELSE bar_figure(
            tail(sort(with_columns(frame, cfg.value_column, cfg.scale_factor),
                      cfg.x_axis, "keep"),
                 cfg.n_points),
            cfg, frame)

plot_bar_chart(frame, cfg) ==
    IF cfg.value_column \notin Columns(frame)
    THEN Raise("ColumnNotFoundError", cfg.value_column,
               "DataFrame.with_columns", frame)
    ELSE bar_figure(
            tail(with_columns(frame, cfg.value_column, cfg.scale_factor),
                 cfg.n_points),
            cfg, frame)

(***************************************************************************)
(* The tables and the arguments the builders are called with               *)
(***************************************************************************)
Schema ==
    [date |-> "Date", Value1 |-> "Int64", Value2 |-> "Int64",
     Monto_Efectivo |-> "Int64"]

Row(d, v1, v2, m) ==
    [date |-> d, Value1 |-> Int64(v1), Value2 |-> Int64(v2),
     Monto_Efectivo |-> Int64(m)]

\* Monthly rows with the columns create_demo_data gives a table (the small
\* values of the documented example for Value1), and a second row for
\* February: two rows of a caller's table may carry the same date.
RowPool ==
    {Row(Date(2022, 1, 1), 100, 800, 2500000),
     Row(Date(2022, 2, 1), 200, 900, 1000000),
     Row(Date(2022, 3, 1), 150, 1000, 3000000),
     Row(Date(2022, 2, 1), 300, 1200, 4000000)}

\* The row sequences of at most MaxRows distinct rows, in any order.
RowSeqs ==
    UNION {{s \in [1..n -> RowPool] : \A i, j \in 1..n : s[i] = s[j] => i = j} :
           n \in 0..MaxRows}

Tables == {[schema |-> Schema, rows |-> s] : s \in RowSeqs}

\* n_points: negative, zero, smaller than a full table, and the default.
NPoints == {-1, 0, 2, CHART_DEFAULTS.n_points}

\* Column names a call may pass; the table has no column fecha, Value3,
\* Value4 or Monto.
Missing(cols) == cols \ DOMAIN Schema

LineConfigs ==
    [date_col : {"date", "fecha"},
     y_values : {"Value1", "Value3"},
     y_format : {FORMAT_TEMPLATES.number},
     title : {"Line Chart"},
     color : {CHART_COLORS.orange},
     n_points : NPoints,
     tick_angle : {CHART_DEFAULTS.tick_angle},
     date_format : {CHART_DEFAULTS.date_format, "%Y-%m-%d"}]

DualArgs ==
    [date_col : {"date", "fecha"},
     y1_col : {"Value1", "Value3"},
     y2_col : {"Value2", "Value4"},
     title : {"Comparative Analysis"},
     y1_name : {"Primary Metric"},
     y2_name : {"Secondary Metric"},
     y1_color : {CHART_COLORS.blue},
     y2_color : {CHART_COLORS.gray},
     y1_format : {FORMAT_TEMPLATES.number, FORMAT_TEMPLATES.percentage},
     y2_format : {FORMAT_TEMPLATES.number, FORMAT_TEMPLATES.percentage},
     date_format : {CHART_DEFAULTS.date_format},
     tick_angle : {CHART_DEFAULTS.tick_angle},
     n_points : NPoints]

\* At most one of the three column names is missing from the table.
DualConfigs ==
    {c \in DualArgs :
        Cardinality(Missing({c.date_col, c.y1_col, c.y2_col})) <= 1}

BarArgs ==
    [x_axis : {"date", "fecha"},
     y_values : {"Monto_Efectivo", "Value1", "Value3"},
     title : {"Bar Chart"},
     color : {CHART_COLORS.orange},
     value_column : {"Monto_Efectivo", "Monto"},
     scale_factor : {1000000, 1000},
     n_points : NPoints]

\* At most one of the three column names is missing from the table.
BarConfigs ==
    {c \in BarArgs :
        Cardinality(Missing({c.x_axis, c.y_values, c.value_column})) <= 1}

(***************************************************************************)
(* The state machine: a caller that holds one table and calls the builders *)
(***************************************************************************)
Init ==
    /\ df \in Tables
    /\ last = NoCall
    /\ chart = NoChart
    /\ err = NoError
    /\ first = NoCall

\* fig = builder(df=data, ...): the outcome reaches the caller, whose table
\* is the frame object the builder was handed.
Call(op, cfg, outcome) ==
    /\ last' = [op |-> op, cfg |-> cfg]
    /\ chart' = outcome.chart
    /\ err' = outcome.err
    /\ df' = outcome.df

PlotLineChart ==
    \E cfg \in LineConfigs, tie \in TieOrders :
        /\ Call("plot_line_chart", cfg, plot_line_chart(df, cfg, tie))
        /\ first' = first

PlotDualLineChart ==
    \E cfg \in DualConfigs, tie \in TieOrders :
        /\ Call("plot_dual_line_chart", cfg, plot_dual_line_chart(df, cfg, tie))
        /\ first' = first

PlotBarChart ==
    \E cfg \in BarConfigs :
        /\ Call("plot_bar_chart", cfg, plot_bar_chart(df, cfg))
        /\ first' = first

Next == PlotLineChart \/ PlotDualLineChart \/ PlotBarChart

Spec == Init /\ [][Next]_vars

(***************************************************************************)
(* The same caller, passing any combination of present and missing column  *)
(* names, with the default formats and the default scale.                  *)
(***************************************************************************)
ColumnsLineChart ==
    \E cfg \in {c \in LineConfigs :
                  c.date_format = CHART_DEFAULTS.date_format},
       tie \in TieOrders :
        /\ Call("plot_line_chart", cfg, plot_line_chart(df, cfg, tie))
        /\ first' = first

ColumnsDualLineChart ==
    \E cfg \in {c \in DualArgs :
                  /\ c.y1_format = FORMAT_TEMPLATES.number
                  /\ c.y2_format = FORMAT_TEMPLATES.percentage},
       tie \in TieOrders :
        /\ Call("plot_dual_line_chart", cfg, plot_dual_line_chart(df, cfg, tie))
        /\ first' = first

ColumnsBarChart ==
    \E cfg \in {c \in BarArgs : c.scale_factor = 1000000} :
        /\ Call("plot_bar_chart", cfg, plot_bar_chart(df, cfg))
        /\ first' = first

NextColumns == ColumnsLineChart \/ ColumnsDualLineChart \/ ColumnsBarChart

SpecColumns == Init /\ [][NextColumns]_vars

(***************************************************************************)
(* The same caller, remembering its first call: every later call is        *)
(* compared with it.  The calls are those that window a full table         *)
(* (n_points = 2) with the default formats and the default scale.          *)
(***************************************************************************)
Remember(op, cfg) ==
    first' = IF first.op = "none"
             THEN [op |-> op, cfg |-> cfg, chart |-> chart', err |-> err',
                   between |-> FALSE]
             ELSE [first EXCEPT !.between =
                      first.between \/ first.op # op \/ first.cfg # cfg]

RepeatLineChart ==
    \E cfg \in {c \in LineConfigs :
                  c.n_points = 2 /\ c.date_format = CHART_DEFAULTS.date_format},
       tie \in TieOrders :
        /\ Call("plot_line_chart", cfg, plot_line_chart(df, cfg, tie))
        /\ Remember("plot_line_chart", cfg)

RepeatDualLineChart ==
    \E cfg \in {c \in DualConfigs :
                  /\ c.n_points = 2
                  /\ c.y1_format = FORMAT_TEMPLATES.number
                  /\ c.y2_format = FORMAT_TEMPLATES.percentage},
       tie \in TieOrders :
        /\ Call("plot_dual_line_chart", cfg, plot_dual_line_chart(df, cfg, tie))
        /\ Remember("plot_dual_line_chart", cfg)

RepeatBarChart ==
    \E cfg \in {c \in BarConfigs : c.n_points = 2 /\ c.scale_factor = 1000000} :
        /\ Call("plot_bar_chart", cfg, plot_bar_chart(df, cfg))
        /\ Remember("plot_bar_chart", cfg)

NextRepeat == RepeatLineChart \/ RepeatDualLineChart \/ RepeatBarChart

SpecRepeat == Init /\ [][NextRepeat]_vars

(***************************************************************************)
(* Properties                                                              *)
(***************************************************************************)
Min(a, b) == IF a < b THEN a ELSE b

\* The column names the last call passed, and those the table lacks.
Named ==
    CASE last.op = "plot_line_chart" -> {last.cfg.date_col, last.cfg.y_values}
      [] last.op = "plot_dual_line_chart" ->
            {last.cfg.date_col, last.cfg.y1_col, last.cfg.y2_col}
      [] last.op = "plot_bar_chart" ->
            {last.cfg.x_axis, last.cfg.y_values, last.cfg.value_column}
      [] OTHER -> {}

AbsentNamed == Named \ Columns(df)

Called == last.op # "none"

Returned == chart.kind # "none" /\ err.kind = "none"

\* The rows of the documented scenario, as a set.
ScenarioRows ==
    {r \in RowPool : r.Value1 \in {Int64(100), Int64(200), Int64(150)}}

\* C1: a line chart over a table of at least one row, with n_points > 0,
\* is returned without error and has min(n_points, rows) points.
LineWindowSize ==
    (/\ last.op = "plot_line_chart"
     /\ AbsentNamed = {}
     /\ Height(df) >= 1
     /\ last.cfg.n_points > 0)
    => /\ Returned
       /\ chart.kind = "line"
       /\ Len(chart.traces) = 1
       /\ Len(chart.traces[1].x) = Min(last.cfg.n_points, Height(df))
       /\ Len(chart.traces[1].y) = Min(last.cfg.n_points, Height(df))

\* C1 happens: a table shorter than the default n_points, charted whole.
LineWindowSizeWitness ==
    /\ last.op = "plot_line_chart"
    /\ last.cfg.n_points = 12
    /\ Height(df) = 2
    /\ Returned
    /\ Len(chart.traces[1].x) = 2

\* The points of trace tr are rows of the table (column xcol against ycol),
\* each row used once, in ascending xcol order, and no row left out has a
\* later xcol than a point.
LatestWindow(tr, xcol, ycol) ==
    LET k == Len(tr.x)
        h == Height(df)
    IN  /\ \A i, j \in 1..k : i < j => ~CellLess(tr.x[j], tr.x[i])
        /\ \E f \in [1..k -> 1..h] :
              /\ \A i, j \in 1..k : f[i] = f[j] => i = j
              /\ \A i \in 1..k :
                    /\ df.rows[f[i]][xcol] = tr.x[i]
                    /\ df.rows[f[i]][ycol] = tr.y[i]
              /\ \A j \in (1..h) \ {f[i] : i \in 1..k} :
                    \A i \in 1..k : ~CellLess(tr.x[i], df.rows[j][xcol])

\* C2: whatever the order of the table's rows, the points of a line or dual
\* chart (n_points > 0) ascend by date and are min(n_points, rows) rows
\* with the latest dates; the three rows of the scenario with n_points = 2
\* give (2022-02-01, 200), (2022-03-01, 150).
SortedLatestWindow ==
    /\ (/\ last.op = "plot_line_chart"
        /\ AbsentNamed = {}
        /\ last.cfg.n_points > 0)
       => /\ Returned
          /\ Len(chart.traces[1].x) = Min(last.cfg.n_points, Height(df))
          /\ LatestWindow(chart.traces[1], last.cfg.date_col, last.cfg.y_values)
          /\ ({df.rows[i] : i \in 1..Height(df)} = ScenarioRows
                /\ last.cfg.n_points = 2)
             => /\ chart.traces[1].x = <<Date(2022, 2, 1), Date(2022, 3, 1)>>
                /\ chart.traces[1].y = <<Int64(200), Int64(150)>>
    /\ (/\ last.op = "plot_dual_line_chart"
        /\ AbsentNamed = {}
        /\ last.cfg.n_points > 0)
       => /\ Returned
          /\ Len(chart.traces[1].x) = Min(last.cfg.n_points, Height(df))
          /\ LatestWindow(chart.traces[1], last.cfg.date_col, last.cfg.y1_col)
          /\ LatestWindow(chart.traces[2], last.cfg.date_col, last.cfg.y2_col)

\* C2 happens: the scenario's rows handed over latest first, n_points = 2.
SortedLatestWindowWitness ==
    /\ last.op = "plot_line_chart"
    /\ last.cfg.n_points = 2
    /\ Height(df) = 3
    /\ df.rows[1].date = Date(2022, 3, 1)
    /\ df.rows[2].date = Date(2022, 2, 1)
    /\ df.rows[3].date = Date(2022, 1, 1)
    /\ Returned
    /\ chart.traces[1].x = <<Date(2022, 2, 1), Date(2022, 3, 1)>>
    /\ chart.traces[1].y = <<Int64(200), Int64(150)>>

\* C3 as stated: a call with n_points <= 0 fails with InvalidConfig and
\* returns no chart.
NonPositiveWindowFails ==
    (Called /\ last.cfg.n_points <= 0)
    => /\ err.kind = "InvalidConfig"
       /\ chart = NoChart

\* C3 amended: no call raises InvalidConfig; with n_points <= 0 and every
\* named column present a chart is returned: without points for
\* n_points = 0, and over all rows but the first |n_points| otherwise.
NonPositiveWindowReturnsChart ==
    /\ err.kind # "InvalidConfig"
    /\ (Called /\ last.cfg.n_points <= 0 /\ AbsentNamed = {})
       => /\ Returned
          /\ \A t \in 1..Len(chart.traces) :
                /\ Len(chart.traces[t].x) =
                      (IF Height(df) + last.cfg.n_points < 0 \/ last.cfg.n_points = 0
                       THEN 0 ELSE Height(df) + last.cfg.n_points)
                /\ Len(chart.traces[t].y) = Len(chart.traces[t].x)
          /\ Len(chart.xaxis.ticktext) = Len(chart.traces[1].x)

\* C3 happens: n_points = -1 over three rows gives a chart of two points.
NonPositiveWindowWitness ==
    /\ Called
    /\ last.cfg.n_points = -1
    /\ Height(df) = 3
    /\ Returned
    /\ Len(chart.traces[1].x) = 2

\* The column names of the last call in the order the builder looks them
\* up, each with the class of the exception its lookup raises.
Lookups ==
    CASE last.op = "plot_line_chart" ->
            <<<<last.cfg.date_col, "ColumnNotFoundError">>,
              <<last.cfg.y_values, "ValueError">>>>
      [] last.op = "plot_dual_line_chart" ->
            <<<<last.cfg.date_col, "ColumnNotFoundError">>,
              <<last.cfg.y1_col, "ColumnNotFoundError">>,
              <<last.cfg.y2_col, "ColumnNotFoundError">>>>
      [] last.op = "plot_bar_chart" ->
            <<<<last.cfg.value_column, "ColumnNotFoundError">>,
              <<last.cfg.x_axis, "ValueError">>,
              <<last.cfg.y_values, "ValueError">>>>

\* C4 as stated: when a column name passed to a builder is not a column of
\* the table, the call returns no chart and raises a ColumnNotFound error
\* naming that column, for each such column.
MissingColumnNotFound ==
    (Called /\ AbsentNamed # {})
    => /\ chart = NoChart
       /\ err.kind = "ColumnNotFoundError"
       /\ \A c \in AbsentNamed : err.column = c

\* C4 amended: the call returns no chart and raises one error, naming the
\* first missing column in the builder's lookup order: a polars
\* ColumnNotFoundError for date_col, y1_col, y2_col and value_column, a
\* plotly ValueError for the line builder's y_values and the bar builder's
\* x_axis and y_values.
MissingColumnFails ==
    (Called /\ AbsentNamed # {})
    => \E i \in 1..Len(Lookups) :
          /\ Lookups[i][1] \notin Columns(df)
          /\ \A j \in 1..(i - 1) : Lookups[j][1] \in Columns(df)
          /\ chart = NoChart
          /\ err.kind = Lookups[i][2]
          /\ err.column = Lookups[i][1]

\* C4 happens: the bar builder is given an x column and a y column the
\* table lacks, and plotly names the x column.
MissingColumnWitness ==
    /\ last.op = "plot_bar_chart"
    /\ last.cfg.value_column = "Monto_Efectivo"
    /\ last.cfg.x_axis = "fecha"
    /\ last.cfg.y_values = "Value3"
    /\ Height(df) = 3
    /\ chart = NoChart
    /\ err.kind = "ValueError"
    /\ err.column = "fecha"

\* The cell of column col in the table row that bar point i shows.
BarInput(i, col) ==
    df.rows[Height(df) - Len(chart.traces[1].y) + i][col]

\* The number v is the number w divided by k.
IsQuotient(v, w, k) == v.num * w.den * k = w.num * v.den

\* C5 as stated: every bar value is the table's value of the plotted
\* column divided by scale_factor, whichever column is scaled.
BarValuesScaled ==
    (last.op = "plot_bar_chart" /\ Returned /\ last.cfg.n_points > 0)
    => \A i \in 1..Len(chart.traces[1].y) :
          IsQuotient(chart.traces[1].y[i], BarInput(i, last.cfg.y_values),
                     last.cfg.scale_factor)

\* C5 amended: the bar values are the table's values divided by
\* scale_factor when the plotted column y_values is the scaled column
\* value_column, and the table's values unchanged when it is another.
BarValuesScaledIfValueColumn ==
    (last.op = "plot_bar_chart" /\ Returned /\ last.cfg.n_points > 0)
    => \A i \in 1..Len(chart.traces[1].y) :
          IF last.cfg.y_values = last.cfg.value_column
          THEN IsQuotient(chart.traces[1].y[i], BarInput(i, last.cfg.y_values),
                          last.cfg.scale_factor)
          ELSE chart.traces[1].y[i] = BarInput(i, last.cfg.y_values)

\* C5 happens: 2,500,000 scaled by 1,000,000 is plotted as 5/2.
BarValuesScaledWitness ==
    /\ last.op = "plot_bar_chart"
    /\ Returned
    /\ last.cfg.y_values = "Monto_Efectivo"
    /\ last.cfg.value_column = "Monto_Efectivo"
    /\ last.cfg.scale_factor = 1000000
    /\ \E i \in 1..Len(chart.traces[1].y) :
          /\ BarInput(i, "Monto_Efectivo") = Int64(2500000)
          /\ chart.traces[1].y[i] = [num |-> 5, den |-> 2]

LineOrDual == last.op \in {"plot_line_chart", "plot_dual_line_chart"}

\* C6 as stated: the tick labels of a line or dual chart are one label per
\* distinct date of the window, in the order of the points.
TickLabelPerDistinctDate ==
    (LineOrDual /\ Returned)
    => LET x == chart.traces[1].x
           labels == chart.xaxis.ticktext
       IN  /\ Len(labels) = Cardinality({x[i] : i \in 1..Len(x)})
           /\ \A i, j \in 1..Len(labels) : i # j => labels[i] # labels[j]

\* C6 amended: the tick labels are one label per point of the window (per
\* row, so a date that two rows share is labelled twice), each the date of
\* its point formatted with date_format, in the order of the points.
TickLabelPerPoint ==
    (LineOrDual /\ Returned)
    => LET x == chart.traces[1].x
           labels == chart.xaxis.ticktext
       IN  /\ Len(labels) = Len(x)
           /\ chart.xaxis.tickvals = x
           /\ \A i \in 1..Len(x) : labels[i] = Strftime(x[i], last.cfg.date_format)

\* C6 happens: a window holding two rows of one date carries its label twice.
TickLabelPerPointWitness ==
    /\ last.op = "plot_line_chart"
    /\ Returned
    /\ Len(chart.traces[1].x) = 2
    /\ chart.traces[1].x[1] = chart.traces[1].x[2]
    /\ chart.xaxis.ticktext = <<"February 22", "February 22">>

\* C7: the two series of a dual chart have the same x values, and the text
\* template of each is made of its own format argument alone.
DualSeriesIndependent ==
    (last.op = "plot_dual_line_chart" /\ Returned)
    => /\ Len(chart.traces) = 2
       /\ chart.traces[1].x = chart.traces[2].x
       /\ Len(chart.traces[1].y) = Len(chart.traces[1].x)
       /\ Len(chart.traces[2].y) = Len(chart.traces[1].x)
       /\ chart.traces[1].texttemplate = "%" \o last.cfg.y1_format
       /\ chart.traces[2].texttemplate = "%" \o last.cfg.y2_format

\* C7 happens: a percentage series and a number series over one x axis.
DualSeriesIndependentWitness ==
    /\ last.op = "plot_dual_line_chart"
    /\ Returned
    /\ last.cfg.y1_format = FORMAT_TEMPLATES.percentage
    /\ last.cfg.y2_format = FORMAT_TEMPLATES.number
    /\ Len(chart.traces[1].x) = 2
    /\ chart.traces[1].texttemplate = "%{text:.1%}"
    /\ chart.traces[2].texttemplate = "%{text:,.0f}"

TableUnchanged == [][df' = df]_vars

\* C9 happens: the bar chart shows scaled values and the table still holds
\* the unscaled ones.
TableUnchangedWitness ==
    /\ last.op = "plot_bar_chart"
    /\ Returned
    /\ last.cfg.y_values = last.cfg.value_column
    /\ Height(df) = 3
    /\ Len(chart.traces[1].y) = 2
    /\ chart.traces[1].y[2] # df.rows[3][last.cfg.y_values]
    /\ df \in Tables

\* C10: the bar chart (n_points > 0) shows the last min(n_points, rows)
\* rows of the table in the caller's order, unsorted, and its tick values
\* and tick labels follow that order.
BarWindowUnsorted ==
    (last.op = "plot_bar_chart" /\ AbsentNamed = {} /\ last.cfg.n_points > 0)
    => LET k == Min(last.cfg.n_points, Height(df))
           x == [i \in 1..k |-> df.rows[Height(df) - k + i][last.cfg.x_axis]]
       IN  /\ Returned
           /\ chart.traces[1].x = x
           /\ Len(chart.traces[1].y) = k
           /\ chart.xaxis.tickvals = x
           /\ chart.xaxis.ticktext = [i \in 1..k |-> Strftime(x[i], "%B %Y")]

\* C10 happens: the table's last two rows are March, then January, and
\* an earlier row is February: the bars are March, January.
BarWindowUnsortedWitness ==
    /\ last.op = "plot_bar_chart"
    /\ Returned
    /\ last.cfg.n_points = 2
    /\ Height(df) = 3
    /\ df.rows[1].date = Date(2022, 2, 1)
    /\ chart.traces[1].x = <<Date(2022, 3, 1), Date(2022, 1, 1)>>
    /\ chart.xaxis.ticktext = <<"March 2022", "January 2022">>
====
